---- MODULE Spec2Model ----
(***************************************************************************)
(* State-machine model of sns_ik::SNS_IK (sns_ik_lib/src/sns_ik.cpp): the  *)
(* explicit-array constructor, initialize(), setVelocitySolveType(),       *)
(* CartToJnt(), CartToJntVel() and nullspaceBiasTask().                    *)
(*                                                                         *)
(* C++ indices are 0-based; TLA+ sequences are 1-based.  Index VALUES kept *)
(* in the model (indicies, matrix cells) are the 0-based C++ values, and   *)
(* x(i) in the code is x[i + 1] here.                                      *)
(***************************************************************************)
EXTENDS Integers, Sequences, FiniteSets, TLC

\* ---- bounds of the model ------------------------------------------------
MaxJoints == 3      \* movable joints of a chain, and length of a bound array
MaxBias == 2        \* length of q_bias and of biasNames in a solve call
MaxAlloc == 2       \* solver pairs created over an instance's lifetime

\* ---- program constants --------------------------------------------------
\* std::numeric_limits<float>::max(); lowest() is its negation.  The real
\* value (about 3.4e38) is scaled down: only the order of a bound relative
\* to it is used by the code.
FloatMax == 100
\* m_nullspaceGain(1.0)
NullspaceGain == 1
\* task.desired = VectorD::Zero(6)
TwistDim == 6

\* ---- helpers ------------------------------------------------------------
Range(s) == {s[i] : i \in 1..Len(s)}

SeqsUpTo(S, n) == UNION {[1..k -> S] : k \in 0..n}

\* sns_ik::VelocitySolveType; "Unknown" stands for any value outside the enum
KnownSolveTypes == {"SNS", "SNS_Optimal", "SNS_OptimalScaleMargin", "SNS_Fast", "SNS_FastOptimal"}

SolveTypes == KnownSolveTypes \cup {"Unknown"}

\* KDL::Joint::getTypeName() values; "None" is a fixed segment
RotNames == {"RotAxis", "RotX", "RotY", "RotZ"}

TransNames == {"TransAxis", "TransX", "TransY", "TransZ"}

\* type.find("Rot") != npos
IsRot(type) == type \in RotNames

\* type.find("Trans") != npos
IsTrans(type) == type \in TransNames

\* KDL::Chain::getNrOfJoints(): the segments whose joint is not fixed
RECURSIVE getNrOfJoints(_)
getNrOfJoints(chain) ==
  IF chain = <<>> THEN 0
  ELSE (IF Head(chain) = "None" THEN 0 ELSE 1) + getNrOfJoints(Tail(chain))

\* a null std::shared_ptr
NullSolver == [id |-> 0, kind |-> "null", nJoints |-> 0, loopPeriod |-> 0,
               low |-> <<>>, high |-> <<>>, maxVel |-> <<>>, maxAcc |-> <<>>,
               positionLimits |-> FALSE]

NullPosSolver == [id |-> 0, chain |-> <<>>, velSolver |-> 0]

\* MatrixD::Zero(rows, cols); ones is the set of <<row, col>> cells set to 1
Zero(rows, cols) == [rows |-> rows, cols |-> cols, ones |-> {}]

VARIABLES
  constructed,      \* the constructor has run
  crashed,          \* the process was terminated (failed assertion, SIGSEGV)
  heapCorrupt,      \* a write landed outside the object it addressed
  rangeChecks,      \* the build keeps the matrix library's index assertions
  m_initialized,
  m_looprate,
  m_nullspaceGain,
  m_solvetype,
  m_chain,
  m_lower_bounds,
  m_upper_bounds,
  m_velocity,
  m_acceleration,
  m_jointNames,
  m_types,
  m_jacobianSolver, \* TRUE when the pointer is set
  m_ik_vel_solver,
  m_ik_pos_solver,
  nextId,           \* identity the next allocated solver pair gets
  last              \* what the last call did and returned

inst == <<m_initialized, m_looprate, m_nullspaceGain, m_solvetype, m_chain,
          m_lower_bounds, m_upper_bounds, m_velocity, m_acceleration,
          m_jointNames, m_types, m_jacobianSolver, m_ik_vel_solver,
          m_ik_pos_solver>>

vars == <<constructed, crashed, heapCorrupt, rangeChecks, inst, nextId, last>>

\* the object, as a record of its members
This ==
  [m_initialized |-> m_initialized, m_looprate |-> m_looprate,
   m_nullspaceGain |-> m_nullspaceGain, m_solvetype |-> m_solvetype,
   m_chain |-> m_chain, m_lower_bounds |-> m_lower_bounds,
   m_upper_bounds |-> m_upper_bounds, m_velocity |-> m_velocity,
   m_acceleration |-> m_acceleration, m_jointNames |-> m_jointNames,
   m_types |-> m_types, m_jacobianSolver |-> m_jacobianSolver,
   m_ik_vel_solver |-> m_ik_vel_solver, m_ik_pos_solver |-> m_ik_pos_solver,
   nextId |-> nextId]

Store(this) ==
  /\ m_initialized' = this.m_initialized
  /\ m_looprate' = this.m_looprate
  /\ m_nullspaceGain' = this.m_nullspaceGain
  /\ m_solvetype' = this.m_solvetype
  /\ m_chain' = this.m_chain
  /\ m_lower_bounds' = this.m_lower_bounds
  /\ m_upper_bounds' = this.m_upper_bounds
  /\ m_velocity' = this.m_velocity
  /\ m_acceleration' = this.m_acceleration
  /\ m_jointNames' = this.m_jointNames
  /\ m_types' = this.m_types
  /\ m_jacobianSolver' = this.m_jacobianSolver
  /\ m_ik_vel_solver' = this.m_ik_vel_solver
  /\ m_ik_pos_solver' = this.m_ik_pos_solver
  /\ nextId' = this.nextId

NoCall == [op |-> "none", ret |-> 0, crash |-> FALSE, velCalls |-> 0, posCalls |-> 0,
           solver |-> 0, sot |-> <<>>, posArgs |-> <<>>, out |-> "untouched",
           q_in |-> <<>>, q_bias |-> <<>>, biasNames |-> <<>>, type |-> "none",
           bias |-> <<>>]

\* ---- setVelocitySolveType -----------------------------------------------
\* mutant: the solver is rebuilt on every call
SolverChangeNeeded_Always(this, type) == TRUE

\* if(m_solvetype != type || !m_ik_vel_solver)
SolverChangeNeeded(this, type) ==
  this.m_solvetype # type \/ this.m_ik_vel_solver = NullSolver

\* one case of the switch, then setJointsCapabilities, usePositionLimits(false),
\* the new SNSPositionIK and the three assignments
InstallSolver(this, type) ==
  [this EXCEPT
     !.m_ik_vel_solver =
        [id |-> this.nextId, kind |-> type,
         nJoints |-> getNrOfJoints(this.m_chain), loopPeriod |-> this.m_looprate,
         low |-> this.m_lower_bounds, high |-> this.m_upper_bounds,
         maxVel |-> this.m_velocity, maxAcc |-> this.m_acceleration,
         positionLimits |-> FALSE],
     !.m_ik_pos_solver =
        [id |-> this.nextId, chain |-> this.m_chain, velSolver |-> this.nextId],
     !.m_solvetype = type,
     !.m_initialized = TRUE,
     !.nextId = this.nextId + 1]

\* mutant: the old solver is released before the switch is entered
setVelocitySolveType_DropOnUnknown(this, type) ==
  IF SolverChangeNeeded(this, type)
  THEN IF type \in KnownSolveTypes
       THEN [this |-> InstallSolver(this, type), ret |-> TRUE]
       ELSE [this |-> [this EXCEPT !.m_ik_vel_solver = NullSolver,
                                   !.m_ik_pos_solver = NullPosSolver],
             ret |-> FALSE]
  ELSE [this |-> this, ret |-> FALSE]

setVelocitySolveType(this, type) ==
  IF SolverChangeNeeded(this, type)
  THEN IF type \in KnownSolveTypes
       THEN [this |-> InstallSolver(this, type), ret |-> TRUE]
       ELSE [this |-> this, ret |-> FALSE]
  ELSE [this |-> this, ret |-> FALSE]

\* ---- initialize ---------------------------------------------------------
\* mutant: the acceleration bounds are not compared
LengthsMatch_NoAcceleration(this) ==
  LET n == getNrOfJoints(this.m_chain) IN
  /\ n = Len(this.m_lower_bounds)
  /\ n = Len(this.m_upper_bounds)
  /\ n = Len(this.m_velocity)
  /\ n = Len(this.m_jointNames)

\* the five size comparisons against m_chain.getNrOfJoints()
LengthsMatch(this) ==
  LET n == getNrOfJoints(this.m_chain) IN
  /\ n = Len(this.m_lower_bounds)
  /\ n = Len(this.m_upper_bounds)
  /\ n = Len(this.m_velocity)
  /\ n = Len(this.m_acceleration)
  /\ n = Len(this.m_jointNames)

\* mutant: one bound at the sentinel is enough
AtSentinel_Either(upper, lower) == upper >= FloatMax \/ lower <= -FloatMax

\* the test that separates Continuous from Revolute
AtSentinel(upper, lower) == upper >= FloatMax /\ lower <= -FloatMax

\* the loop over m_chain.segments; the bounds are read at index m_types.size()
RECURSIVE PopulateTypes(_, _, _, _)
PopulateTypes(segments, types, upper_bounds, lower_bounds) ==
  IF segments = <<>> THEN types
  ELSE LET type == Head(segments)
           k == Len(types) + 1
           next == IF IsRot(type)
                   THEN IF AtSentinel(upper_bounds[k], lower_bounds[k])
                        THEN Append(types, "Continuous")
                        ELSE Append(types, "Revolute")
                   ELSE IF IsTrans(type)
                        THEN Append(types, "Prismatic")
                        ELSE types
       IN PopulateTypes(Tail(segments), next, upper_bounds, lower_bounds)

initialize(this) ==
  IF ~LengthsMatch(this) THEN [this |-> this, ret |-> FALSE]
  ELSE IF Len(this.m_jointNames) = 0 THEN [this |-> this, ret |-> FALSE]
  ELSE LET t1 == [this EXCEPT !.m_types =
                     PopulateTypes(this.m_chain, this.m_types,
                                   this.m_upper_bounds, this.m_lower_bounds)]
       IN IF Len(t1.m_types) # Len(t1.m_lower_bounds)
          THEN [this |-> t1, ret |-> FALSE]
          ELSE LET t2 == [t1 EXCEPT !.m_jacobianSolver = TRUE]
                   r == setVelocitySolveType(t2, t2.m_solvetype)
               IN IF ~r.ret THEN [this |-> r.this, ret |-> FALSE]
                  ELSE [this |-> r.this, ret |-> TRUE]

\* ---- the state before the constructor runs ------------------------------
Init ==
  /\ constructed = FALSE
  /\ crashed = FALSE
  /\ heapCorrupt = FALSE
  /\ rangeChecks \in BOOLEAN
  /\ m_initialized = FALSE
  /\ m_looprate = 0
  /\ m_nullspaceGain = 0
  /\ m_solvetype = "Unknown"
  /\ m_chain = <<>>
  /\ m_lower_bounds = <<>>
  /\ m_upper_bounds = <<>>
  /\ m_velocity = <<>>
  /\ m_acceleration = <<>>
  /\ m_jointNames = <<>>
  /\ m_types = <<>>
  /\ m_jacobianSolver = FALSE
  /\ m_ik_vel_solver = NullSolver
  /\ m_ik_pos_solver = NullPosSolver
  /\ nextId = 1
  /\ last = NoCall

\* SNS_IK(chain, q_min, q_max, v_max, a_max, jointNames, looprate, eps, type)
Constructed(chain, q_min, q_max, v_max, a_max, jointNames, looprate, type) ==
  initialize([m_initialized |-> FALSE, m_looprate |-> looprate,
              m_nullspaceGain |-> NullspaceGain, m_solvetype |-> type,
              m_chain |-> chain, m_lower_bounds |-> q_min,
              m_upper_bounds |-> q_max, m_velocity |-> v_max,
              m_acceleration |-> a_max, m_jointNames |-> jointNames,
              m_types |-> <<>>, m_jacobianSolver |-> FALSE,
              m_ik_vel_solver |-> NullSolver, m_ik_pos_solver |-> NullPosSolver,
              nextId |-> 1])

Construct(chain, q_min, q_max, v_max, a_max, jointNames, looprate, type) ==
  /\ ~constructed
  /\ \E r \in {Constructed(chain, q_min, q_max, v_max, a_max, jointNames, looprate, type)} :
        /\ Store(r.this)
        /\ last' = [NoCall EXCEPT !.op = "SNS_IK", !.ret = IF r.ret THEN 1 ELSE 0,
                                  !.type = type]
  /\ constructed' = TRUE
  /\ UNCHANGED <<crashed, heapCorrupt, rangeChecks>>

SetVelocitySolveType(type) ==
  /\ constructed
  /\ ~crashed
  /\ \E r \in {setVelocitySolveType(This, type)} :
        /\ r.this.nextId <= MaxAlloc + 1
        /\ Store(r.this)
        /\ last' = [NoCall EXCEPT !.op = "setVelocitySolveType",
                                  !.ret = IF r.ret THEN 1 ELSE 0, !.type = type]
  /\ UNCHANGED <<constructed, crashed, heapCorrupt, rangeChecks>>

\* ---- nullspaceBiasTask --------------------------------------------------
\* std::distance(begin, std::find(begin, end, name)): first position, 0-based
IndexOf(names, name) ==
  CHOOSE i \in 0..(Len(names) - 1) :
    /\ names[i + 1] = name
    /\ \A j \in 0..(i - 1) : names[j + 1] # name

\* the for loop of nullspaceBiasTask from row ii on.  acc.oob records that
\* (*jacobian)(ii, indx) addressed a cell outside the matrix as it was sized.
RECURSIVE BiasLoop(_, _, _, _)
BiasLoop(ii, biasNames, jointNames, acc) ==
  IF ii = Len(biasNames) THEN [acc EXCEPT !.ret = TRUE]
  ELSE IF biasNames[ii + 1] \notin Range(jointNames) THEN [acc EXCEPT !.ret = FALSE]
  ELSE LET indx == IndexOf(jointNames, biasNames[ii + 1])
           inside == ii < acc.jacobian.rows /\ indx < acc.jacobian.cols
       IN BiasLoop(ii + 1, biasNames, jointNames,
                   [acc EXCEPT !.jacobian.ones = IF inside THEN @ \cup {<<ii, indx>>} ELSE @,
                               !.oob = @ \/ ~inside,
                               !.indicies[ii + 1] = indx])

\* *jacobian = MatrixD::Zero(m_jointNames.size(), q_bias.rows())
BiasJacobianZero(jointNames, q_bias) == Zero(Len(jointNames), Len(q_bias))

nullspaceBiasTask(this, q_bias, biasNames) ==
  IF Len(q_bias) # Len(biasNames)
  THEN [ret |-> FALSE, jacobian |-> Zero(0, 0), indicies |-> <<>>, oob |-> FALSE]
  ELSE BiasLoop(0, biasNames, this.m_jointNames,
                [ret |-> FALSE,
                 jacobian |-> BiasJacobianZero(this.m_jointNames, q_bias),
                 indicies |-> [i \in 1..Len(q_bias) |-> 0],
                 oob |-> FALSE])

\* ---- CartToJnt ----------------------------------------------------------
\* checks says what the build does with an out-of-range (*jacobian)(ii, indx):
\* TRUE, the matrix library's index assertion ends the process; FALSE, the
\* store goes through to memory outside the addressed cell.
\* delegateRet is what the position wrapper returns.
CartToJntCall(this, q_init, q_bias, biasNames, checks, delegateRet) ==
  LET call == [NoCall EXCEPT !.op = "CartToJnt", !.q_in = q_init,
                             !.q_bias = q_bias, !.biasNames = biasNames]
  IN IF ~this.m_initialized THEN [call EXCEPT !.ret = -1]
     ELSE IF Len(q_bias) # 0
     THEN LET b == nullspaceBiasTask(this, q_bias, biasNames)
              c == [call EXCEPT !.bias = <<b>>]
          IN IF b.oob /\ checks THEN [c EXCEPT !.crash = TRUE]
             ELSE IF ~b.ret THEN [c EXCEPT !.ret = -1]
             ELSE [c EXCEPT !.posCalls = 1, !.solver = this.m_ik_pos_solver.id,
                            !.posArgs = <<[q_init |-> q_init, q_bias |-> q_bias,
                                           ns_jacobian |-> b.jacobian,
                                           indicies |-> b.indicies,
                                           gain |-> this.m_nullspaceGain]>>,
                            !.out = "delegate", !.ret = delegateRet]
     ELSE [call EXCEPT !.posCalls = 1, !.solver = this.m_ik_pos_solver.id,
                       !.posArgs = <<[q_init |-> q_init, q_bias |-> <<>>,
                                      ns_jacobian |-> Zero(0, 0),
                                      indicies |-> <<>>, gain |-> 0]>>,
                       !.out = "delegate", !.ret = delegateRet]

\* ---- CartToJntVel -------------------------------------------------------
\* KDL::ChainJntToJacSolver::JntToJac: negative when q_in does not have one
\* entry per movable joint
JntToJac(this, q_in) ==
  IF Len(q_in) # getNrOfJoints(this.m_chain) THEN -1 ELSE 0

\* task.jacobian = jacobian.data; task.desired(i) = v_in[i]
PrimaryTask(q_in, v_in) ==
  [jacobian |-> [kind |-> "chain", rows |-> TwistDim, cols |-> Len(q_in), q |-> q_in],
   desired |-> [i \in 1..TwistDim |-> v_in[i]]]

\* mutant: the current joint value is read at the row, not at the resolved
\* index (0 stands for what lies past the end of q_in)
BiasDesired_RowIndex(this, q_bias, q_in, indicies) ==
  [ii \in 1..Len(q_bias) |->
     [num |-> this.m_nullspaceGain * (q_bias[ii] - (IF ii <= Len(q_in) THEN q_in[ii] ELSE 0)),
      den |-> this.m_looprate]]

\* task2.desired(ii) = m_nullspaceGain * (q_bias(ii) - q_in(indicies[ii])) / m_looprate
\* the quotient is kept as numerator and denominator
BiasDesired(this, q_bias, q_in, indicies) ==
  [ii \in 1..Len(q_bias) |->
     [num |-> this.m_nullspaceGain * (q_bias[ii] - q_in[indicies[ii] + 1]),
      den |-> this.m_looprate]]

\* mutant: the bias task is pushed first
BuildSot_BiasFirst(task, jacobian2, desired2) ==
  <<[jacobian |-> jacobian2, desired |-> desired2], task>>

\* sot after the pushes of CartToJntVel, given the bias task's parts
BuildSot(task, jacobian2, desired2) ==
  <<task, [jacobian |-> jacobian2, desired |-> desired2]>>

CartToJntVelCall(this, q_in, v_in, q_bias, biasNames, checks, delegateRet) ==
  LET call == [NoCall EXCEPT !.op = "CartToJntVel", !.q_in = q_in,
                             !.q_bias = q_bias, !.biasNames = biasNames]
      task == PrimaryTask(q_in, v_in)
  IN IF ~this.m_initialized THEN [call EXCEPT !.ret = -1]
     ELSE IF ~this.m_jacobianSolver THEN [call EXCEPT !.crash = TRUE]
     ELSE IF JntToJac(this, q_in) < 0 THEN [call EXCEPT !.ret = -1]
     ELSE IF Len(q_bias) # 0
     THEN LET b == nullspaceBiasTask(this, q_bias, biasNames)
              c == [call EXCEPT !.bias = <<b>>]
          IN IF b.oob /\ checks THEN [c EXCEPT !.crash = TRUE]
             ELSE IF ~b.ret THEN [c EXCEPT !.ret = -1]
             ELSE [c EXCEPT !.velCalls = 1, !.solver = this.m_ik_vel_solver.id,
                            !.sot = BuildSot(task, b.jacobian,
                                       BiasDesired(this, q_bias, q_in, b.indicies)),
                            !.out = "delegate", !.ret = delegateRet]
     ELSE [call EXCEPT !.velCalls = 1, !.solver = this.m_ik_vel_solver.id,
                       !.sot = <<task>>, !.out = "delegate", !.ret = delegateRet]

\* the effect of a solve call on the state: the object is not written
Solved(call) ==
  /\ last' = call
  /\ crashed' = call.crash
  /\ heapCorrupt' = (heapCorrupt \/ (call.bias # <<>> /\ call.bias[1].oob /\ ~call.crash))
  /\ UNCHANGED <<constructed, rangeChecks, inst, nextId>>

CartToJnt(q_init, q_bias, biasNames, delegateRet) ==
  /\ constructed
  /\ ~crashed
  /\ \E call \in {CartToJntCall(This, q_init, q_bias, biasNames, rangeChecks, delegateRet)} :
        Solved(call)

CartToJntVel(q_in, v_in, q_bias, biasNames, delegateRet) ==
  /\ constructed
  /\ ~crashed
  /\ \E call \in {CartToJntVelCall(This, q_in, v_in, q_bias, biasNames, rangeChecks, delegateRet)} :
        Solved(call)

SolveOps == {"CartToJnt", "CartToJntVel"}

\* ---- inputs -------------------------------------------------------------
JointName(i) == CASE i = 1 -> "j1" [] i = 2 -> "j2" [] i = 3 -> "j3"
                  [] i = 4 -> "j4" [] i = 5 -> "j5" [] OTHER -> "j6"

\* the first n joint names
Names(n) == [i \in 1..n |-> JointName(i)]

\* n movable joints, rotational and translational in turn; with fixed, a
\* fixed segment comes first and another after the first movable joint
ChainOf(n, fixed, rotFirst) ==
  LET odd == IF rotFirst THEN "RotZ" ELSE "TransX"
      even == IF rotFirst THEN "TransY" ELSE "RotAxis"
      joints == [i \in 1..n |-> IF i % 2 = 1 THEN odd ELSE even]
  IN IF ~fixed THEN joints
     ELSE IF n = 0 THEN <<"None">>
     ELSE <<"None", joints[1], "None">> \o SubSeq(joints, 2, n)

Const(n, v) == [i \in 1..n |-> v]

\* lower and upper bounds: at the sentinel, finite, beyond the sentinel
LowerValues == <<-FloatMax, -3, -FloatMax - 1>>

UpperValues == <<FloatMax, 3, FloatMax + 1>>

\* n bounds that run through values from position shift on
Bounds(values, n, shift) == [i \in 1..n |-> values[((i + shift) % Len(values)) + 1]]

\* joint positions: entry i holds 10 * i
Q(n) == [i \in 1..n |-> 10 * i]

\* bias targets: entry i holds 2 * i + 1
BiasTargets(k) == [i \in 1..k |-> 2 * i + 1]

\* k bias names that start at joint start and step by stride through the
\* joint names (stride 0 repeats one name), the one at position absentAt (if
\* any) replaced by a name no chain has
BiasNames(start, stride, k, absentAt) ==
  [i \in 1..k |-> IF i = absentAt THEN "zz"
                  ELSE JointName(((start - 1 + stride * (i - 1)) % MaxJoints) + 1)]

BiasNameLists ==
  {BiasNames(start, stride, k, absentAt) :
     start \in 1..MaxJoints, stride \in 0..1, k \in 0..MaxBias, absentAt \in 0..MaxBias}

BiasTargetLists == {BiasTargets(k) : k \in 0..MaxBias}

LoopRates == {2, 4}

Twists == {<<0, 0, 1, 0, 0, 0>>, <<1, 2, 3, 4, 5, 6>>}

DelegateRets == {-1, 1}

\* q_in of the right length, and one entry too long
QIns == {Q(getNrOfJoints(m_chain)), Q(getNrOfJoints(m_chain) + 1)}

\* ---- Spec: the life of an instance --------------------------------------
ConstructSome ==
  /\ ~constructed
  /\ \E n \in 0..MaxJoints, lo \in 0..MaxJoints, rest \in 0..MaxJoints,
     looprate \in LoopRates, type \in {"SNS", "Unknown"} :
    Construct(ChainOf(n, TRUE, TRUE), Const(lo, -3), Const(rest, 3), Const(rest, 2),
              Const(rest, 5), Names(rest), looprate, type)

SetSome == \E type \in {"SNS", "SNS_Fast", "Unknown"} : SetVelocitySolveType(type)

\* no bias; one bias joint; an absent name; an absent name after a present
\* one; more targets than names
FewBias == {<<<<>>, <<>>>>, <<BiasTargets(1), <<"j1">>>>, <<BiasTargets(1), <<"zz">>>>,
            <<BiasTargets(2), <<"j3", "zz">>>>, <<BiasTargets(2), <<"j1">>>>}

CartToJntSome ==
  /\ constructed /\ ~crashed
  /\ \E b \in FewBias, delegateRet \in DelegateRets :
    CartToJnt(Q(getNrOfJoints(m_chain)), b[1], b[2], delegateRet)

CartToJntVelSome ==
  /\ constructed /\ ~crashed
  /\ \E q_in \in QIns, v_in \in Twists, b \in FewBias, delegateRet \in DelegateRets :
    CartToJntVel(q_in, v_in, b[1], b[2], delegateRet)

Next == ConstructSome \/ SetSome \/ CartToJntSome \/ CartToJntVelSome

Spec == Init /\ [][Next]_vars

\* ---- SpecCtor: every way to construct ------------------------------------
\* the chain has n movable joints; array number which (1 lower, 2 upper,
\* 3 velocity, 4 acceleration, 5 names; 0 for none) has d entries and the
\* other arrays have n
ConstructAny ==
  /\ ~constructed
  /\ \E n \in 0..MaxJoints, fixed \in BOOLEAN, rotFirst \in BOOLEAN,
     which \in 0..5, d \in 0..MaxJoints, ls \in 0..2, us \in 0..2, type \in SolveTypes :
    LET len(k) == IF which = k THEN d ELSE n
    IN Construct(ChainOf(n, fixed, rotFirst), Bounds(LowerValues, len(1), ls),
                 Bounds(UpperValues, len(2), us), Const(len(3), 2), Const(len(4), 5),
                 Names(len(5)), 2, type)

NextCtor == ConstructAny

SpecCtor == Init /\ [][NextCtor]_vars

\* ---- SpecSolve: every bias request, one solve call per instance ---------
\* CartToJnt and CartToJntVel write no member (C10, checked under Spec over
\* repeated calls), so a second solve would start from what the first saw.
ConstructForSolve ==
  /\ ~constructed
  /\ \E n \in 0..MaxJoints, short \in BOOLEAN, looprate \in LoopRates,
        type \in {"SNS", "Unknown"} :
       LET m == IF short /\ n > 0 THEN n - 1 ELSE n
       IN Construct(ChainOf(n, TRUE, TRUE), Const(m, -3), Const(m, 3), Const(m, 2),
                    Const(m, 5), Names(m), looprate, type)

SetForSolve ==
  /\ last.op \notin SolveOps
  /\ \E type \in {"SNS", "SNS_Optimal"} : SetVelocitySolveType(type)

CartToJntAny ==
  /\ constructed /\ ~crashed
  /\ last.op \notin SolveOps
  /\ \E q_bias \in BiasTargetLists, biasNames \in BiasNameLists, delegateRet \in DelegateRets :
       CartToJnt(Q(getNrOfJoints(m_chain)), q_bias, biasNames, delegateRet)

CartToJntVelAny ==
  /\ constructed /\ ~crashed
  /\ last.op \notin SolveOps
  /\ \E q_in \in QIns, v_in \in Twists, q_bias \in BiasTargetLists,
        biasNames \in BiasNameLists, delegateRet \in DelegateRets :
       CartToJntVel(q_in, v_in, q_bias, biasNames, delegateRet)

NextSolve == ConstructForSolve \/ SetForSolve \/ CartToJntAny \/ CartToJntVelAny

SpecSolve == Init /\ [][NextSolve]_vars

\* ---- properties ---------------------------------------------------------
\* the last call was a solve on an instance whose m_initialized is set
SolvedWhenReady == constructed /\ m_initialized /\ last.op \in SolveOps

\* the last solve did not get to any solver and returned the error value
FailedBeforeForward ==
  /\ last.ret = -1
  /\ ~last.crash
  /\ last.velCalls = 0
  /\ last.posCalls = 0
  /\ last.sot = <<>>
  /\ last.posArgs = <<>>
  /\ last.out = "untouched"

\* the 0-based position of every bias name of the last call in m_jointNames
ResolvedIndices == [i \in 1..Len(last.biasNames) |-> IndexOf(m_jointNames, last.biasNames[i])]

\* the last call carried a bias request whose names and targets pair up and
\* whose names are all joints of the chain
ValidBiasRequest ==
  /\ Len(last.q_bias) > 0
  /\ Len(last.q_bias) = Len(last.biasNames)
  /\ Range(last.biasNames) \subseteq Range(m_jointNames)

\* C1: once construction has failed on a length mismatch, the instance is
\* never initialized again, and every solve call returns -1 without reaching
\* a solver.
C1_MismatchStaysUninitialized ==
  (constructed /\ ~LengthsMatch(This)) =>
    /\ ~m_initialized
    /\ (last.op \in SolveOps => FailedBeforeForward)

\* every movable joint of the chain got a type, so that the type table is as
\* long as the bound arrays
EveryJointClassified ==
  Cardinality({i \in 1..Len(m_chain) : IsRot(m_chain[i]) \/ IsTrans(m_chain[i])})
    = Len(m_lower_bounds)

C2_InputsWellFormed ==
  LET n == getNrOfJoints(m_chain) IN
  /\ Len(m_lower_bounds) = n
  /\ Len(m_upper_bounds) = n
  /\ Len(m_velocity) = n
  /\ Len(m_acceleration) = n
  /\ Len(m_jointNames) = n
  /\ n # 0
  /\ EveryJointClassified

\* C2 as stated: after construction m_initialized equals "all five lengths
\* equal the movable-joint count, the count is nonzero and every joint's
\* bounds resolve", whatever the requested strategy tag.
C2_ReadyIffWellFormed ==
  (constructed /\ last.op = "SNS_IK") => (m_initialized <=> C2_InputsWellFormed)

\* C2 amended: after construction m_initialized equals that condition
\* together with the requested strategy tag being one of the five known tags.
C2_ReadyIffWellFormedAndKnownTag ==
  (constructed /\ last.op = "SNS_IK") =>
    (m_initialized <=> (C2_InputsWellFormed /\ last.type \in KnownSolveTypes))

C2_Witness ==
  constructed /\ last.op = "SNS_IK" /\ m_initialized /\ Len(m_jointNames) >= 2

\* the type names of the movable joints, in chain order
MovableJoints == SelectSeq(m_chain, LAMBDA t : t # "None")

\* the joint type C8 expects for movable joint j, with the given reading of
\* "bounds at the sentinel"
ExpectedType(j, sentinel(_, _)) ==
  IF IsRot(MovableJoints[j])
  THEN IF sentinel(m_upper_bounds[j], m_lower_bounds[j]) THEN "Continuous" ELSE "Revolute"
  ELSE "Prismatic"

ExactlyAtSentinel(upper, lower) == upper = FloatMax /\ lower = -FloatMax

AtOrBeyondSentinel(upper, lower) == upper >= FloatMax /\ lower <= -FloatMax

InitializeSucceeded == constructed /\ last.op = "SNS_IK" /\ last.ret = 1

\* C8 as stated: after a successful initialize the type table has one entry
\* per movable joint in chain order; a rotational joint is Continuous when
\* its own bounds are exactly at the sentinel and Revolute otherwise, and a
\* translational joint is Prismatic.
C8_TypesExactSentinel ==
  InitializeSucceeded =>
    /\ Len(m_types) = Len(MovableJoints)
    /\ \A j \in 1..Len(m_types) : m_types[j] = ExpectedType(j, ExactlyAtSentinel)

\* C8 amended: the same, with Continuous for a rotational joint whose own
\* upper bound is at or above the positive sentinel and whose own lower
\* bound is at or below the negative sentinel.
C8_TypesAtOrBeyondSentinel ==
  InitializeSucceeded =>
    /\ Len(m_types) = Len(MovableJoints)
    /\ \A j \in 1..Len(m_types) : m_types[j] = ExpectedType(j, AtOrBeyondSentinel)

\* a chain with fixed segments whose table holds a Continuous joint, a
\* Revolute joint with one bound at the sentinel, and a Prismatic joint
C8_Witness ==
  /\ InitializeSucceeded
  /\ "None" \in Range(m_chain)
  /\ "Prismatic" \in Range(m_types)
  /\ \E j \in 1..Len(m_types) : m_types[j] = "Continuous"
  /\ \E j \in 1..Len(m_types) :
       /\ m_types[j] = "Revolute"
       /\ (m_upper_bounds[j] >= FloatMax \/ m_lower_bounds[j] <= -FloatMax)

\* C3: for a valid bias request of k names on a chain of n joints,
\* nullspaceBiasTask gives a k-by-n matrix with a single 1 per row, in the
\* column of that row's joint, and the indices in request order; no write
\* falls outside the matrix.
C3_SelectionJacobian ==
  (SolvedWhenReady /\ ValidBiasRequest /\ last.bias # <<>>) =>
    LET b == last.bias[1]
        k == Len(last.biasNames)
    IN /\ ~b.oob
       /\ ~last.crash
       /\ b.ret
       /\ b.jacobian.rows = k
       /\ b.jacobian.cols = Len(m_jointNames)
       /\ b.jacobian.ones = {<<i - 1, ResolvedIndices[i]>> : i \in 1..k}
       /\ b.indicies = ResolvedIndices

\* C4: on an initialized instance a bias request that names a joint the
\* chain does not have makes the solve return the error value with no solver
\* invoked, no task handed on and the output untouched.
C4_AbsentNameFails ==
  (/\ SolvedWhenReady
   /\ Len(last.q_bias) > 0
   /\ Len(last.q_bias) = Len(last.biasNames)
   /\ ~(Range(last.biasNames) \subseteq Range(m_jointNames)))
    => FailedBeforeForward

\* C5: on an initialized instance a solve whose bias names and bias values
\* differ in number returns the error value and invokes no solver.
C5_CountMismatchFails ==
  (SolvedWhenReady /\ Len(last.q_bias) # Len(last.biasNames)) => FailedBeforeForward

\* C6: a setVelocitySolveType call with the active tag while a solver exists
\* returns false and leaves every member as it was; and every solve that is
\* forwarded goes to the solver the instance holds at that moment.
C6_SameTagIsNoOp ==
  [][/\ (/\ constructed
         /\ last'.op = "setVelocitySolveType"
         /\ last'.type = m_solvetype
         /\ m_ik_vel_solver # NullSolver)
        => (last'.ret = 0 /\ inst' = inst /\ nextId' = nextId)
     /\ (last'.op = "CartToJntVel" /\ last'.velCalls = 1)
        => last'.solver = m_ik_vel_solver.id
     /\ (last'.op = "CartToJnt" /\ last'.posCalls = 1)
        => (last'.solver = m_ik_pos_solver.id
            /\ m_ik_pos_solver.velSolver = m_ik_vel_solver.id)]_vars

C6_Witness ==
  /\ m_initialized
  /\ last.op = "setVelocitySolveType"
  /\ last.type = m_solvetype
  /\ last.ret = 0
  /\ m_ik_vel_solver.kind = m_solvetype

\* the last CartToJntVel call fails before line 316: q_in of the wrong
\* length, or a bias request that pairs up badly or names an absent joint
FailsBeforeForward ==
  \/ Len(last.q_in) # getNrOfJoints(m_chain)
  \/ (Len(last.q_bias) > 0 /\ ~ValidBiasRequest)

\* C7: on an initialized instance a successful CartToJntVel invoked the
\* active velocity solver once, with the primary task (chain Jacobian, six
\* twist entries) first; the stack has one task without a bias request, and
\* two with N bias values, the second being the bias task with N desired
\* entries.  A call that fails before the forward invokes no solver.
C7_TaskStackShape ==
  (constructed /\ m_initialized /\ last.op = "CartToJntVel") =>
    /\ (last.ret >= 0 /\ ~last.crash) =>
         /\ last.velCalls = 1
         /\ last.solver = m_ik_vel_solver.id
         /\ Len(last.sot) = (IF Len(last.q_bias) = 0 THEN 1 ELSE 2)
         /\ "kind" \in DOMAIN last.sot[1].jacobian
         /\ last.sot[1].jacobian.kind = "chain"
         /\ last.sot[1].jacobian.rows = TwistDim
         /\ last.sot[1].jacobian.cols = getNrOfJoints(m_chain)
         /\ Len(last.sot[1].desired) = TwistDim
         /\ Len(last.q_bias) > 0 =>
              /\ last.sot[2].jacobian = last.bias[1].jacobian
              /\ Len(last.sot[2].desired) = Len(last.q_bias)
    /\ (last.crash \/ FailsBeforeForward) => (last.velCalls = 0 /\ last.sot = <<>>)
    /\ last.velCalls \in {0, 1}
    /\ last.posCalls = 0

C7_Witness ==
  /\ m_initialized
  /\ last.op = "CartToJntVel"
  /\ last.ret >= 0
  /\ Len(last.q_bias) = 2
  /\ Len(last.sot) = 2

\* C9: in a forwarded CartToJntVel with a bias request, desired entry i of
\* the bias task is gain * (target i - current value of the joint that name i
\* resolves to) over m_looprate, the value the constructor was given.
C9_BiasDesired ==
  (constructed /\ last.op = "CartToJntVel" /\ last.velCalls = 1 /\ Len(last.q_bias) > 0) =>
    \A i \in 1..Len(last.q_bias) :
      last.sot[2].desired[i] =
        [num |-> NullspaceGain * (last.q_bias[i] - last.q_in[ResolvedIndices[i] + 1]),
         den |-> m_looprate]

\* a forwarded bias request whose first name is not the chain's first joint
C9_Witness ==
  /\ last.op = "CartToJntVel"
  /\ last.velCalls = 1
  /\ Len(last.q_bias) = 2
  /\ ResolvedIndices[1] # 0

\* the call recorded in c returned failure
Failing(c) ==
  \/ (c.op \in SolveOps /\ c.ret < 0 /\ ~c.crash)
  \/ (c.op = "setVelocitySolveType" /\ c.ret = 0)

\* C10: on an initialized instance a call that fails leaves every member as
\* it was, and m_initialized, once set, stays set.
C10_FailingCallsChangeNothing ==
  [][/\ (constructed /\ m_initialized /\ Failing(last'))
          => (inst' = inst /\ nextId' = nextId)
     /\ m_initialized => m_initialized']_vars

C10_Witness ==
  /\ m_initialized
  /\ last.op = "setVelocitySolveType"
  /\ last.type = "Unknown"
  /\ last.ret = 0

====
